---- MODULE Spec2Model ----
(***************************************************************************)
(* A model of the emojis crate: the generator's parse_emoji_data           *)
(* (generate/src/unicode.rs) reads an emoji-test.txt shaped input line by  *)
(* line into parsed_data, the table EMOJIS and the two index maps are      *)
(* generated from it, and the library functions of src/lib.rs and          *)
(* src/search.rs are then called on the frozen table.                      *)
(*                                                                         *)
(* Code points are integers (their Unicode scalar values), an emoji string *)
(* is a sequence of code points, a name / shortcode / query is a sequence  *)
(* of one-character strings.                                               *)
(*                                                                         *)
(* The input files have the shape of emoji-test.txt: groups in the file's  *)
(* order, an emoji without skin tones as a fully-qualified line followed   *)
(* by its unqualified line, a one-person family as the default and the     *)
(* five modifiers in order, a two-person family as the default and the 25  *)
(* modifier pairs in row-major order, every fully-qualified line of it     *)
(* followed by its minimally-qualified line.                               *)
(***************************************************************************)
EXTENDS Integers, Sequences, FiniteSets, TLC

\* Number of emoji blocks (an emoji with its variations and skin tones) of an input file.
MaxBlocks == 2

VARIABLES
    lines,          \* the input lines parse_emoji_data has not read yet
    gemoji,         \* the entries of gemoji's db/emoji.json
    pc,             \* position of the pipeline
    group,          \* parse_emoji_data: the current group (camel-cased)
    subgroup,       \* parse_emoji_data: the current subgroup
    parsed_data,    \* parse_emoji_data: the IndexMap of IndexMaps of Vec<Emoji>
    EMOJIS,         \* gen::EMOJIS, the generated table
    unicodeMAP,     \* gen::unicode::MAP, emoji string -> table position
    shortcodeMAP,   \* gen::shortcode::MAP, shortcode -> table position
    op,             \* the library function called on the table
    arg,            \* its arguments
    res,            \* its result
    remaining,      \* examples/replace.rs: s, the rest of the text replace has to scan
    written         \* examples/replace.rs: what replace has written to o

vars == <<lines, gemoji, pc, group, subgroup, parsed_data, EMOJIS, unicodeMAP, shortcodeMAP, op, arg, res, remaining, written>>

None == "None"

(***************************************************************************)
(* Skin tones                                                              *)
(***************************************************************************)

\* enum SkinTone, in declaration order (the derived Ord of the generator's enum).
SkinTone ==
    << "Default", "Light", "MediumLight", "Medium", "MediumDark", "Dark",
       "LightAndMediumLight", "LightAndMedium", "LightAndMediumDark", "LightAndDark",
       "MediumLightAndLight", "MediumLightAndMedium", "MediumLightAndMediumDark", "MediumLightAndDark",
       "MediumAndLight", "MediumAndMediumLight", "MediumAndMediumDark", "MediumAndDark",
       "MediumDarkAndLight", "MediumDarkAndMediumLight", "MediumDarkAndMedium", "MediumDarkAndDark",
       "DarkAndLight", "DarkAndMediumLight", "DarkAndMedium", "DarkAndMediumDark" >>

SkinTones == { SkinTone[i] : i \in 1..Len(SkinTone) }

\* Discriminant of a tone; Option<SkinTone> orders None before every Some.
ToneOrd(t) == IF t = None THEN 0 ELSE CHOOSE i \in 1..Len(SkinTone) : SkinTone[i] = t

\* fn skin_tones(): the five modifier tones.
skin_tones_iter == << "Light", "MediumLight", "Medium", "MediumDark", "Dark" >>

\* SkinTone::code_point
code_point(st) ==
    CASE st = "Light"       -> 127995
      [] st = "MediumLight" -> 127996
      [] st = "Medium"      -> 127997
      [] st = "MediumDark"  -> 127998
      [] st = "Dark"        -> 127999

\* The modifiers among the chars of an emoji string, in order (filter_map / find_map).
RECURSIVE Modifiers(_)
Modifiers(emoji) ==
    IF emoji = <<>> THEN <<>>
    ELSE LET c   == Head(emoji)
             hit == { i \in 1..Len(skin_tones_iter) : code_point(skin_tones_iter[i]) = c }
         IN  IF hit = {} THEN Modifiers(Tail(emoji))
             ELSE <<skin_tones_iter[CHOOSE i \in hit : TRUE]>> \o Modifiers(Tail(emoji))

\* The match with the pair arms not told apart by order: [b, a] classified as [a, b].
MatchSkinToneUnordered(ms) ==
    CASE Len(ms) = 0 -> None
      [] Len(ms) = 1 -> ms[1]
      [] Len(ms) = 2 /\ ToneOrd(ms[1]) < ToneOrd(ms[2]) -> ms[1] \o "And" \o ms[2]
      [] Len(ms) = 2 /\ ToneOrd(ms[1]) > ToneOrd(ms[2]) -> ms[2] \o "And" \o ms[1]
      [] Len(ms) = 2 /\ ms[1] = ms[2] -> ms[1]
      [] OTHER -> "Err"

\* The match of Emoji::from_line on the modifier list: a tone, None, or "Err" (bail!).
MatchSkinTone(ms) ==
    CASE Len(ms) = 0 -> None
      [] Len(ms) = 1 -> ms[1]
      [] Len(ms) = 2 /\ ms[1] # ms[2] -> ms[1] \o "And" \o ms[2]
      [] Len(ms) = 2 /\ ms[1] = ms[2] -> ms[1]
      [] OTHER -> "Err"

(***************************************************************************)
(* The input: an emoji-test.txt shaped file                                *)
(***************************************************************************)

\* The "# group: " headers of emoji-test.txt, in file order, without Component.
GroupHeaders ==
    << "Smileys & Emotion", "People & Body", "Animals & Nature", "Food & Drink",
       "Travel & Places", "Activities", "Objects", "Symbols", "Flags" >>

\* group.replace('&', "And").to_camel_case()
CamelCase(header) ==
    CASE header = "Smileys & Emotion" -> "SmileysAndEmotion"
      [] header = "People & Body"     -> "PeopleAndBody"
      [] header = "Component"         -> "Component"
      [] header = "Animals & Nature"  -> "AnimalsAndNature"
      [] header = "Food & Drink"      -> "FoodAndDrink"
      [] header = "Travel & Places"   -> "TravelAndPlaces"
      [] header = "Activities"        -> "Activities"
      [] header = "Objects"           -> "Objects"
      [] header = "Symbols"           -> "Symbols"
      [] header = "Flags"             -> "Flags"

GroupLine(h)    == [type |-> "group",    text |-> h,  code_points |-> <<>>, status |-> None, name |-> <<>>]
SubgroupLine(s) == [type |-> "subgroup", text |-> s,  code_points |-> <<>>, status |-> None, name |-> <<>>]
BlankLine       == [type |-> "blank",    text |-> "", code_points |-> <<>>, status |-> None, name |-> <<>>]
CommentLine     == [type |-> "comment",  text |-> "#", code_points |-> <<>>, status |-> None, name |-> <<>>]
EmojiLine(cps, st, nm) ==
    [type |-> "emoji", text |-> "", code_points |-> cps, status |-> st, name |-> nm]

\* The name of the k-th emoji block of a file: "ab", "abc", "abcc", ...
BaseName(k) == <<"a", "b">> \o [i \in 1..(k - 1) |-> "c"]

\* The part of a CLDR name that a tone adds (": light skin tone" ...), one letter a tone.
ToneLetter(st) ==
    CASE st = "Light"       -> "l"
      [] st = "MediumLight" -> "n"
      [] st = "Medium"      -> "m"
      [] st = "MediumDark"  -> "k"
      [] st = "Dark"        -> "d"

\* First and second person's code point of block k.
Base1(k) == 128000 + k
Base2(k) == 129000 + k

\* An emoji without skin tones: fully-qualified with U+FE0F, then its unqualified form.
PlainBlock(k) ==
    << EmojiLine(<<Base1(k), 65039>>, "fully-qualified", BaseName(k)),
       EmojiLine(<<Base1(k)>>, "unqualified", BaseName(k)) >>

\* One person: the default, its unqualified form, then the five modifiers in order.
Fam6Block(k) ==
    PlainBlock(k) \o
    [i \in 1..5 |->
        EmojiLine(<<Base1(k), code_point(skin_tones_iter[i])>>, "fully-qualified",
                  BaseName(k) \o <<":", ToneLetter(skin_tones_iter[i])>>)]

\* Two persons joined by ZWJ HEART U+FE0F ZWJ; the minimally-qualified form drops U+FE0F.
Couple(k, a, b, fq) ==
    <<Base1(k)>> \o a \o <<8205, 10084>> \o (IF fq THEN <<65039>> ELSE <<>>)
                 \o <<8205, Base2(k)>> \o b

\* Two persons (e.g. "couple with heart: woman, man"): the default and its
\* minimally-qualified form, then the 25 modifier pairs in row-major order, each
\* fully-qualified line followed by its minimally-qualified line.
Fam26Block(k) ==
    << EmojiLine(Couple(k, <<>>, <<>>, TRUE), "fully-qualified", BaseName(k)),
       EmojiLine(Couple(k, <<>>, <<>>, FALSE), "minimally-qualified", BaseName(k)) >> \o
    [n \in 1..50 |->
        LET p  == (n + 1) \div 2
            a  == skin_tones_iter[((p - 1) \div 5) + 1]
            b  == skin_tones_iter[((p - 1) % 5) + 1]
            fq == (n % 2 = 1)
        IN  EmojiLine(Couple(k, <<code_point(a)>>, <<code_point(b)>>, fq),
                      IF fq THEN "fully-qualified" ELSE "minimally-qualified",
                      BaseName(k) \o <<":", ToneLetter(a), ToneLetter(b)>>)]

\* The Component group: the five modifiers themselves, status component.
ComponentBlock ==
    [i \in 1..5 |->
        EmojiLine(<<code_point(skin_tones_iter[i])>>, "component", <<ToneLetter(skin_tones_iter[i])>>)]

\* A family whose default line is missing from the file: the five modifiers of one
\* person, under a name ("ba", "bac", ...) that contains the name of no other block.
OrphanBlock(k) ==
    [i \in 1..5 |->
        EmojiLine(<<Base1(k), code_point(skin_tones_iter[i])>>, "fully-qualified",
                  <<"b", "a">> \o [j \in 1..(k - 1) |-> "c"]
                              \o <<":", ToneLetter(skin_tones_iter[i])>>)]

Kinds == {"Plain", "Fam6", "Fam26"}

BlockLines(k, kind) ==
    CASE kind = "Plain" -> PlainBlock(k)
      [] kind = "Fam6"  -> Fam6Block(k)
      [] kind = "Fam26" -> Fam26Block(k)
      [] kind = "Orphan6" -> OrphanBlock(k)

\* The file layouts of blocks of the given kinds: for each block its kind and whether it
\* opens the next group (the first block opens the first group).
LayoutsOf(kinds) ==
    UNION { { l \in [1..n -> [kind : kinds, newgroup : BOOLEAN]] : l[1].newgroup }
            : n \in 1..MaxBlocks }

Layouts == LayoutsOf(Kinds)

\* The number of groups opened by blocks 1..i of layout l.
RECURSIVE GroupNo(_, _)
GroupNo(l, i) ==
    IF i = 0 THEN 0
    ELSE GroupNo(l, i - 1) + (IF l[i].newgroup THEN 1 ELSE 0)

\* The Component group of the file: in emoji-test.txt it follows People & Body.
ComponentGroup ==
    << BlankLine, GroupLine("Component"), BlankLine, SubgroupLine("skin-tone") >>
    \o ComponentBlock

\* The lines of blocks i.. of layout l, the Component group after the second group (at
\* the end of a file of fewer groups), and the closing comment.
RECURSIVE FileFrom(_, _)
FileFrom(l, i) ==
    IF i > Len(l)
    THEN (IF GroupNo(l, Len(l)) <= 2 THEN ComponentGroup ELSE <<>>)
         \o << BlankLine, CommentLine >>
    ELSE (IF l[i].newgroup
          THEN (IF GroupNo(l, i) = 3 THEN ComponentGroup ELSE <<>>) \o
               (IF i > 1 THEN << BlankLine >> ELSE << CommentLine, BlankLine >>) \o
               << GroupLine(GroupHeaders[GroupNo(l, i)]),
                  BlankLine,
                  SubgroupLine("subgroup") >>
          ELSE <<>>)
         \o BlockLines(i, l[i].kind) \o FileFrom(l, i + 1)

\* The gemoji entries of a file's emojis: one entry for the default form of each block,
\* with two shortcodes for a plain emoji and one for a family.
RECURSIVE GemojiFrom(_, _)
GemojiFrom(l, i) ==
    IF i > Len(l) THEN <<>>
    ELSE (CASE l[i].kind = "Plain" ->
                 << [emoji |-> <<Base1(i), 65039>>,
                     aliases |-> << BaseName(i), <<"x">> \o BaseName(i) >>] >>
            [] l[i].kind = "Fam6" ->
                 << [emoji |-> <<Base1(i), 65039>>, aliases |-> << <<"y">> \o BaseName(i) >>] >>
            [] l[i].kind = "Fam26" ->
                 << [emoji |-> Couple(i, <<>>, <<>>, TRUE),
                     aliases |-> << <<"z">> \o BaseName(i) >>] >>
            [] OTHER -> <<>>)
         \o GemojiFrom(l, i + 1)

\* The input files: like emoji-test.txt, a file has at least one skin tone family.
Inputs ==
    { l \in Layouts :
        /\ GroupNo(l, Len(l)) <= Len(GroupHeaders)
        /\ \E i \in 1..Len(l) : l[i].kind \in {"Fam6", "Fam26"} }

(***************************************************************************)
(* generate/src/unicode.rs                                                 *)
(***************************************************************************)

\* Emoji::from_line on a line's fields: Ok(Emoji) (err FALSE) or Err (err TRUE). The
\* tone is decided by the modifiers among the code points; skin_tones starts at 1 and
\* variations empty.
from_line(line) ==
    LET emoji     == line.code_points
        skin_tone == MatchSkinTone(Modifiers(emoji))
    IN  [err |-> \/ line.type # "emoji"
                 \/ line.status \notin {"fully-qualified", "minimally-qualified",
                                        "unqualified", "component"}
                 \/ skin_tone = "Err",
         emoji |-> emoji, name |-> line.name, status |-> line.status,
         skin_tone |-> skin_tone, skin_tones |-> 1, variations |-> <<>>]

\* The Emoji of a from_line result.
Unwrap(r) == [f \in (DOMAIN r) \ {"err"} |-> r[f]]

\* Position of key k in an IndexMap (a sequence of entries in insertion order), or 0.
IndexOf(map, k) ==
    IF \E i \in 1..Len(map) : map[i].key = k
    THEN CHOOSE i \in 1..Len(map) : map[i].key = k
    ELSE 0

\* parsed_data[&group][&subgroup] exists (the Index impl of IndexMap panics otherwise).
HasVec(pd, g, s) ==
    /\ IndexOf(pd, g) # 0
    /\ IndexOf(pd[IndexOf(pd, g)].value, s) # 0

\* parsed_data[&group][&subgroup]
GetVec(pd, g, s) == LET subs == pd[IndexOf(pd, g)].value IN subs[IndexOf(subs, s)].value

\* parsed_data.entry(group).or_default().entry(subgroup).or_insert_with(Vec::new),
\* then the Vec replaced by f applied to it.
EntryVec(pd, g, s, v) ==
    LET pd1  == IF IndexOf(pd, g) = 0 THEN Append(pd, [key |-> g, value |-> <<>>]) ELSE pd
        gi   == IndexOf(pd1, g)
        subs == pd1[gi].value
        sub1 == IF IndexOf(subs, s) = 0 THEN Append(subs, [key |-> s, value |-> <<>>]) ELSE subs
        si   == IndexOf(sub1, s)
    IN  [pd1 EXCEPT ![gi].value = [sub1 EXCEPT ![si].value = v]]

\* The Vec of the entry API: created empty when absent.
EntryGet(pd, g, s) == IF HasVec(pd, g, s) THEN GetVec(pd, g, s) ELSE <<>>

IsDefaultOrNone(e) == e.skin_tone \in {None, "Default"}

\* The closure of the search for the default member: matches!(e.skin_tone, None |
\* Some(Default)) && emoji.name.contains(&emoji.name); the second conjunct compares the
\* new emoji's name with itself.
Contains(hay, needle) ==
    \E i \in 0..(Len(hay) - Len(needle)) : SubSeq(hay, i + 1, i + Len(needle)) = needle

FindDefaultPred(e, emoji) == IsDefaultOrNone(e) /\ Contains(emoji.name, emoji.name)

\* The search without .rev(): the first position satisfying the closure.
FindDefaultFirst(v, emoji) ==
    LET hits == { i \in 1..Len(v) : FindDefaultPred(v[i], emoji) }
    IN  IF hits = {} THEN 0 ELSE CHOOSE i \in hits : \A j \in hits : i <= j

\* .iter_mut().enumerate().rev().find(..): the last position satisfying the closure, or 0.
FindDefault(v, emoji) ==
    LET hits == { i \in 1..Len(v) : FindDefaultPred(v[i], emoji) }
    IN  IF hits = {} THEN 0 ELSE CHOOSE i \in hits : \A j \in hits : j <= i

\* The new record put at the end of the slice whatever its tone.
partition_point_end(slice, skin_tone) == Len(slice)

\* slice.partition_point(pred) for pred = |e| e.skin_tone < Some(skin_tone): the length
\* of the prefix satisfying pred (the slice is partitioned: the default, then the
\* family's tones in ascending order).
partition_point(slice, skin_tone) ==
    LET bad == { j \in 1..Len(slice) : ~(ToneOrd(slice[j].skin_tone) < ToneOrd(skin_tone)) }
    IN  IF bad = {} THEN Len(slice) ELSE (CHOOSE j \in bad : \A k \in bad : j <= k) - 1

\* Vec::insert(at, x), at 0-based.
Insert(v, at, x) == SubSeq(v, 1, at) \o <<x>> \o SubSeq(v, at + 1, Len(v))

\* The body of the for loop of parse_emoji_data for one parsed Emoji: st is "Ok" with
\* the new parsed_data, "Err" (the ? on with_context) or "Panic" (IndexMap index).
ProcessEmoji(pd, g, s, emoji) ==
    LET Ok(x) == [st |-> "Ok", pd |-> x]
        Err   == [st |-> "Err", pd |-> pd]
        Panic == [st |-> "Panic", pd |-> pd]
    IN  CASE emoji.status = "component" -> Ok(pd)
          [] emoji.status \in {"minimally-qualified", "unqualified"} ->
                IF ~HasVec(pd, g, s) THEN Panic
                ELSE LET v == GetVec(pd, g, s)
                     IN  IF v = <<>> THEN Err
                         ELSE Ok(EntryVec(pd, g, s,
                                [v EXCEPT ![Len(v)].variations = Append(@, emoji.emoji)]))
          [] emoji.status = "fully-qualified" /\ IsDefaultOrNone(emoji) ->
                Ok(EntryVec(pd, g, s, Append(EntryGet(pd, g, s), emoji)))
          [] OTHER ->
                IF ~HasVec(pd, g, s) THEN Panic
                ELSE LET v == GetVec(pd, g, s)
                         d == FindDefault(v, emoji)
                     IN  IF d = 0 THEN Err
                         ELSE LET v1 == [v EXCEPT ![d].skin_tone = "Default",
                                                  ![d].skin_tones = @ + 1]
                                  i  == d - 1
                                  j  == partition_point(SubSeq(v1, i + 1, Len(v1)),
                                                        emoji.skin_tone)
                              IN  Ok(EntryVec(pd, g, s, Insert(v1, i + j, emoji)))

\* lines.next_group(): consume_until_starts_with("# group: ", None), one line a step.
NextGroup ==
    /\ pc = "next_group"
    /\ IF lines = <<>>
       THEN /\ pc' = "parsed"
            /\ UNCHANGED <<lines, group>>
       ELSE /\ lines' = Tail(lines)
            /\ IF Head(lines).type = "group"
               THEN /\ group' = CamelCase(Head(lines).text)
                    /\ pc' = "next_subgroup"
               ELSE UNCHANGED <<pc, group>>
    /\ UNCHANGED <<gemoji, subgroup, parsed_data, EMOJIS, unicodeMAP, shortcodeMAP, op, arg, res, remaining, written>>

\* lines.next_subgroup(): consume_until_starts_with("# subgroup: ", Some("# group: ")).
NextSubgroup ==
    /\ pc = "next_subgroup"
    /\ IF lines = <<>> \/ Head(lines).type = "group"
       THEN /\ pc' = "next_group"
            /\ UNCHANGED <<lines, subgroup>>
       ELSE /\ lines' = Tail(lines)
            /\ IF Head(lines).type = "subgroup"
               THEN /\ subgroup' = Head(lines).text
                    /\ pc' = "lines"
               ELSE UNCHANGED <<pc, subgroup>>
    /\ UNCHANGED <<gemoji, group, parsed_data, EMOJIS, unicodeMAP, shortcodeMAP, op, arg, res, remaining, written>>

\* One iteration of `for line in &mut lines` of parse_emoji_data.
ParseLine ==
    /\ pc = "lines"
    /\ IF lines = <<>>
       THEN /\ pc' = "next_subgroup"
            /\ UNCHANGED <<lines, parsed_data>>
       ELSE /\ lines' = Tail(lines)
            /\ IF Head(lines).type = "blank"
               THEN /\ pc' = "next_subgroup"
                    /\ UNCHANGED parsed_data
               ELSE LET r == from_line(Head(lines))
                        p == ProcessEmoji(parsed_data, group, subgroup, Unwrap(r))
                    IN  IF r.err \/ p.st # "Ok"
                        THEN /\ pc' = "failed"
                             /\ UNCHANGED parsed_data
                        ELSE /\ pc' = pc
                             /\ parsed_data' = p.pd
    /\ UNCHANGED <<gemoji, group, subgroup, EMOJIS, unicodeMAP, shortcodeMAP, op, arg, res, remaining, written>>

(***************************************************************************)
(* generate/src/github.rs and the generated module gen                     *)
(***************************************************************************)

\* fetch_and_parse_emoji_data of github.rs: the entries collected into a HashMap keyed
\* by emoji string; collect() keeps the last entry of a key.
collect(entries) ==
    [k \in { entries[i].emoji : i \in 1..Len(entries) } |->
        entries[CHOOSE i \in 1..Len(entries) :
                    /\ entries[i].emoji = k
                    /\ \A j \in 1..Len(entries) : entries[j].emoji = k => j <= i]]

RECURSIVE Concat(_)
Concat(ss) == IF ss = <<>> THEN <<>> ELSE Head(ss) \o Concat(Tail(ss))

\* The emojis of parsed_data in the order of `for subgroups in parsed_data.values()`,
\* `for emojis in subgroups.values()`, `for emoji in emojis`, each with its group.
Flatten(pd) ==
    Concat([gi \in 1..Len(pd) |->
        Concat([si \in 1..Len(pd[gi].value) |->
            [ei \in 1..Len(pd[gi].value[si].value) |->
                [group |-> pd[gi].key, e |-> pd[gi].value[si].value[ei]]]])])

\* The table position (counted from 1) of the default member of the family of flat[p]:
\* the nearest Default record at or before p.
BaseOf(flat, p) ==
    LET ds == { q \in 1..p : flat[q].e.skin_tone = "Default" }
    IN  IF ds = {} THEN p ELSE CHOOSE q \in ds : \A r \in ds : r <= q

\* gen::EMOJIS: one record for each fully-qualified emoji, in parsed_data order. An
\* Option is a sequence of length 0 or 1; skin_tone is (<id>, <n>, <skin_tone>) with
\* id the position, counted from 0, of the default member and n the family's size.
GenEmojis(pd, github) ==
    LET flat == Flatten(pd)
    IN  [p \in 1..Len(flat) |->
            LET e == flat[p].e
            IN  [emoji     |-> e.emoji,
                 name      |-> e.name,
                 group     |-> flat[p].group,
                 skin_tone |-> IF e.skin_tone = None THEN <<>>
                               ELSE << [id   |-> BaseOf(flat, p) - 1,
                                        n    |-> flat[BaseOf(flat, p)].e.skin_tones,
                                        tone |-> e.skin_tone] >>,
                 aliases   |-> IF e.emoji \in DOMAIN github
                               THEN << github[e.emoji].aliases >>
                               ELSE <<>>]]

\* The entries of gen::unicode::MAP: the emoji string and every variation of a record
\* map to the record's position.
UnicodeEntries(pd) ==
    LET flat == Flatten(pd)
    IN  Concat([p \in 1..Len(flat) |->
            << [key |-> flat[p].e.emoji, value |-> p - 1] >> \o
            [v \in 1..Len(flat[p].e.variations) |->
                [key |-> flat[p].e.variations[v], value |-> p - 1]]])

\* The entries of gen::shortcode::MAP: every alias of a record maps to its position.
ShortcodeEntries(table) ==
    Concat([p \in 1..Len(table) |->
        IF table[p].aliases = <<>> THEN <<>>
        ELSE [a \in 1..Len(table[p].aliases[1]) |->
                [key |-> table[p].aliases[1][a], value |-> p - 1]]])

\* Building a static map fails on a key given twice.
DuplicateKey(entries) ==
    \E i, j \in 1..Len(entries) : i < j /\ entries[i].key = entries[j].key

MapOf(entries) ==
    [k \in { entries[i].key : i \in 1..Len(entries) } |->
        entries[CHOOSE i \in 1..Len(entries) : entries[i].key = k].value]

\* The generator's main: the table and the two maps written from parsed_data and the
\* gemoji data; the build fails on a duplicate key. The generator then exits: its
\* data is gone when the library runs.
Generate ==
    /\ pc = "parsed"
    /\ LET table == GenEmojis(parsed_data, collect(gemoji))
           ue    == UnicodeEntries(parsed_data)
           se    == ShortcodeEntries(table)
       IN  IF DuplicateKey(ue) \/ DuplicateKey(se)
           THEN /\ pc' = "failed"
                /\ UNCHANGED <<EMOJIS, unicodeMAP, shortcodeMAP>>
           ELSE /\ pc' = "run"
                /\ EMOJIS' = table
                /\ unicodeMAP' = MapOf(ue)
                /\ shortcodeMAP' = MapOf(se)
    /\ parsed_data' = <<>>
    /\ gemoji' = <<>>
    /\ UNCHANGED <<lines, group, subgroup, op, arg, res, remaining, written>>

(***************************************************************************)
(* src/lib.rs: a &'static Emoji is the position, counted from 0, of a      *)
(* record of EMOJIS; an Option or an iterator is a sequence                *)
(***************************************************************************)

\* crate::gen::EMOJIS[i]
At(i) == EMOJIS[i + 1]

Ids == 0..(Len(EMOJIS) - 1)

\* Emoji::as_str
as_str(e) == At(e).emoji

\* Emoji::skin_tone
skin_tone(e) == IF At(e).skin_tone = <<>> THEN <<>> ELSE << At(e).skin_tone[1].tone >>

\* skin_tones slicing the table from the record itself instead of the default member.
skin_tones_from_self(e) ==
    IF At(e).skin_tone = <<>> THEN <<>>
    ELSE LET n == At(e).skin_tone[1].n
             m == IF Len(EMOJIS) - e < n THEN Len(EMOJIS) - e ELSE n
         IN  << [k \in 1..m |-> e + k - 1] >>

\* skin_tones with take(n + 1): one record more than the family.
skin_tones_take_one_more(e) ==
    IF At(e).skin_tone = <<>> THEN <<>>
    ELSE LET i == At(e).skin_tone[1].id
             n == At(e).skin_tone[1].n + 1
             m == IF Len(EMOJIS) - i < n THEN Len(EMOJIS) - i ELSE n
         IN  << [k \in 1..m |-> i + k - 1] >>

\* Emoji::skin_tones: None, or Some of EMOJIS[i..].iter().take(n).
skin_tones(e) ==
    IF At(e).skin_tone = <<>> THEN <<>>
    ELSE LET i == At(e).skin_tone[1].id
             n == At(e).skin_tone[1].n
             m == IF Len(EMOJIS) - i < n THEN Len(EMOJIS) - i ELSE n
         IN  << [k \in 1..m |-> i + k - 1] >>

\* The slice EMOJIS[i..] of skin_tones panics when i is beyond the table.
skin_tones_panics(e) ==
    At(e).skin_tone # <<>> /\ At(e).skin_tone[1].id > Len(EMOJIS)

\* with_skin_tone scanning the family without its first record.
with_skin_tone_skip_first(e, t) ==
    IF At(e).skin_tone = <<>> THEN <<>>
    ELSE LET i    == At(e).skin_tone[1].id
             n    == At(e).skin_tone[1].n
             hits == { k \in (i + 1)..(i + n - 1) : k \in 0..(Len(EMOJIS) - 1) /\ EMOJIS[k + 1].skin_tone # <<>>
                                                    /\ EMOJIS[k + 1].skin_tone[1].tone = t }
         IN  IF hits = {} THEN <<>> ELSE << CHOOSE k \in hits : \A h \in hits : k <= h >>

\* Emoji::with_skin_tone: the first record of skin_tones() with the given tone.
with_skin_tone(e, t) ==
    IF skin_tones(e) = <<>> THEN <<>>
    ELSE LET fam  == skin_tones(e)[1]
             hits == { k \in 1..Len(fam) : skin_tone(fam[k]) = <<t>> }
         IN  IF hits = {} THEN <<>>
             ELSE << fam[CHOOSE k \in hits : \A h \in hits : k <= h] >>

\* The unwrap in the closure of with_skin_tone panics on a scanned record that has no
\* skin tone: any record of the family when none matches, else one before the match.
with_skin_tone_panics(e, t) ==
    \/ skin_tones_panics(e)
    \/ /\ skin_tones(e) # <<>>
       /\ LET fam == skin_tones(e)[1]
          IN  \E k \in 1..Len(fam) :
                /\ skin_tone(fam[k]) = <<>>
                /\ \A h \in 1..(k - 1) : skin_tone(fam[h]) # <<t>>

\* Emoji::shortcode: the first alias.
shortcode(e) ==
    IF At(e).aliases = <<>> \/ At(e).aliases[1] = <<>> THEN <<>>
    ELSE << At(e).aliases[1][1] >>

\* Emoji::shortcodes
shortcodes(e) == IF At(e).aliases = <<>> THEN <<>> ELSE At(e).aliases[1]

\* The filter of iter() keeping only the records without a skin tone.
IterKeepNoneOnly(e) == EMOJIS[e + 1].skin_tone = <<>>

\* iter(): the table filtered to Some(SkinTone::Default) | None.
IterKeep(e) == skin_tone(e) \in { <<"Default">>, <<>> }

iter == SelectSeq([k \in 1..Len(EMOJIS) |-> k - 1], IterKeep)

\* Group::iter()
GroupIter ==
    << "SmileysAndEmotion", "PeopleAndBody", "AnimalsAndNature", "FoodAndDrink",
       "TravelAndPlaces", "Activities", "Objects", "Symbols", "Flags" >>

RECURSIVE skip_while(_, _)
skip_while(ps, g) ==
    IF ps = <<>> THEN <<>>
    ELSE IF At(Head(ps)).group # g THEN skip_while(Tail(ps), g) ELSE ps

RECURSIVE take_while(_, _)
take_while(ps, g) ==
    IF ps = <<>> THEN <<>>
    ELSE IF At(Head(ps)).group = g THEN <<Head(ps)>> \o take_while(Tail(ps), g) ELSE <<>>

\* Group::emojis without the skip_while.
emojis_no_skip(g) == take_while(iter, g)

\* Group::emojis
emojis(g) == take_while(skip_while(iter, g), g)

\* get indexing the table one position too far.
get_off_by_one(s) == IF s \in DOMAIN unicodeMAP THEN << unicodeMAP[s] + 1 >> ELSE <<>>

\* get: MAP.get(s).map(|&i| &EMOJIS[i])
get(s) == IF s \in DOMAIN unicodeMAP THEN << unicodeMAP[s] >> ELSE <<>>

get_panics(s) == s \in DOMAIN unicodeMAP /\ unicodeMAP[s] \notin Ids

\* get_by_shortcode indexing the table one position too far.
get_by_shortcode_off_by_one(s) ==
    IF s \in DOMAIN shortcodeMAP THEN << shortcodeMAP[s] + 1 >> ELSE <<>>

\* ASCII lower case of a one-character string.
Lower(c) ==
    CASE c = "A" -> "a" [] c = "B" -> "b" [] c = "C" -> "c"
      [] c = "X" -> "x" [] c = "Y" -> "y" [] c = "Z" -> "z" [] OTHER -> c

\* get_by_shortcode matching the key without regard to case.
get_by_shortcode_ignore_case(s) ==
    LET l == [i \in 1..Len(s) |-> Lower(s[i])]
    IN  IF l \in DOMAIN shortcodeMAP THEN << shortcodeMAP[l] >> ELSE <<>>

\* get_by_shortcode
get_by_shortcode(s) == IF s \in DOMAIN shortcodeMAP THEN << shortcodeMAP[s] >> ELSE <<>>

get_by_shortcode_panics(s) == s \in DOMAIN shortcodeMAP /\ shortcodeMAP[s] \notin Ids

(***************************************************************************)
(* src/search.rs: a Score is the exact fraction num / den (den > 0) of the *)
(* f64 the code computes                                                   *)
(***************************************************************************)

Max(x, y) == IF x >= y THEN x ELSE y
Min(x, y) == IF x <= y THEN x ELSE y

\* The matching loop of strsim::jaro from the i-th element of a on (i counted from 0):
\* a[i] is matched with the first unflagged equal element of b within search_range.
\* f is the pair of flag sets <<a_flags, b_flags>> (positions counted from 0).
RECURSIVE JaroMatch(_, _, _, _, _)
JaroMatch(a, b, i, range, f) ==
    IF i >= Len(a) THEN f
    ELSE LET min_bound == IF i > range THEN i - range ELSE 0
             max_bound == Min(Len(b), i + range + 1)
             cand == { j \in min_bound..(max_bound - 1) : a[i + 1] = b[j + 1] /\ j \notin f[2] }
         IN  IF cand = {} THEN JaroMatch(a, b, i + 1, range, f)
             ELSE LET j == CHOOSE j \in cand : \A k \in cand : j <= k
                  IN  JaroMatch(a, b, i + 1, range, << f[1] \cup {i}, f[2] \cup {j} >>)

\* The flagged elements of x, in order.
RECURSIVE Flagged(_, _, _)
Flagged(x, flags, i) ==
    IF i >= Len(x) THEN <<>>
    ELSE (IF i \in flags THEN << x[i + 1] >> ELSE <<>>) \o Flagged(x, flags, i + 1)

\* strsim::jaro(a, b): 1 for two empty strings, 0 when one is empty or nothing matches,
\* else (m / |a| + m / |b| + (m - t) / m) / 3 with m matches and t = transpositions / 2.
jaro(a, b) ==
    IF Len(a) = 0 /\ Len(b) = 0 THEN [num |-> 1, den |-> 1]
    ELSE IF Len(a) = 0 \/ Len(b) = 0 THEN [num |-> 0, den |-> 1]
    ELSE LET range == Max(Max(Len(a), Len(b)) \div 2 - 1, 0)
             f  == JaroMatch(a, b, 0, range, << {}, {} >>)
             m  == Cardinality(f[1])
             ma == Flagged(a, f[1], 0)
             mb == Flagged(b, f[2], 0)
             t  == Cardinality({ k \in 1..m : ma[k] # mb[k] }) \div 2
         IN  IF m = 0 THEN [num |-> 0, den |-> 1]
             ELSE [num |-> m * m * Len(b) + m * m * Len(a) + (m - t) * Len(a) * Len(b),
                   den |-> 3 * Len(a) * Len(b) * m]

\* str::starts_with
starts_with(thing, query) ==
    Len(query) <= Len(thing) /\ SubSeq(thing, 1, Len(query)) = query

\* similarity: jaro, doubled when thing starts with query.
similarity(thing, query) ==
    LET mul == IF starts_with(thing, query) THEN 2 ELSE 1
        j   == jaro(thing, query)
    IN  [num |-> mul * j.num, den |-> j.den]

\* Score::cmp by the f64: -1 (Less), 0 (Equal), 1 (Greater).
ScoreCmp(x, y) ==
    IF x.num * y.den < y.num * x.den THEN -1
    ELSE IF x.num * y.den > y.num * x.den THEN 1 ELSE 0

\* Iterator::max of a non-empty Vec<Score>.
RECURSIVE MaxScore(_)
MaxScore(scores) ==
    IF Len(scores) = 1 THEN scores[1]
    ELSE LET r == MaxScore(Tail(scores))
         IN  IF ScoreCmp(Head(scores), r) > 0 THEN Head(scores) ELSE r

\* The threshold test with >= in place of >.
AtOrAboveThreshold(score) == 4 * score.num >= 3 * score.den

\* score.0 > 0.75
AboveThreshold(score) == 4 * score.num > 3 * score.den

\* emoji_score: the best of the similarities of the name and of every alias, as an
\* Option: Some only above the threshold.
emoji_score(e, query) ==
    LET scores == << similarity(At(e).name, query) >> \o
                  (IF At(e).aliases = <<>> THEN <<>>
                   ELSE [a \in 1..Len(At(e).aliases[1]) |->
                            similarity(At(e).aliases[1][a], query)])
        score  == MaxScore(scores)
    IN  IF AboveThreshold(score) THEN << score >> ELSE <<>>

\* The key order without Reverse: ascending score.
KeyLessAscending(x, y) ==
    \/ x.score.num * y.score.den < y.score.num * x.score.den
    \/ x.score.num * y.score.den = y.score.num * x.score.den /\ x.id < y.id

\* The key order of sort_by_key(|(emoji, score)| (Reverse(*score), emoji.id)): x sorts
\* before y.
KeyLess(x, y) ==
    \/ ScoreCmp(x.score, y.score) > 0
    \/ ScoreCmp(x.score, y.score) = 0 /\ x.id < y.id

\* Vec::sort_by_key: a stable sort, here by insertion.
RECURSIVE sort_by_key(_)
sort_by_key(v) ==
    IF v = <<>> THEN <<>>
    ELSE LET x      == v[Len(v)]
             sorted == sort_by_key(SubSeq(v, 1, Len(v) - 1))
             before == { k \in 1..Len(sorted) : ~KeyLess(x, sorted[k]) }
             n      == Cardinality({ k \in 1..Len(sorted) : \A h \in 1..k : h \in before })
         IN  SubSeq(sorted, 1, n) \o << x >> \o SubSeq(sorted, n + 1, Len(sorted))

\* The (emoji, score) pairs search collects: filter_map over the table.
Scored(query) ==
    LET keep(p) == emoji_score(p, query) # <<>>
        ps == SelectSeq([k \in 1..Len(EMOJIS) |-> k - 1], keep)
    IN  [k \in 1..Len(ps) |-> [id |-> ps[k], score |-> emoji_score(ps[k], query)[1]]]

\* search without the sort_by_key: the scored records in table order.
search_unsorted(query) ==
    LET scored == Scored(query)
    IN  [k \in 1..Len(scored) |-> scored[k].id]

\* search: the scored records sorted by (Reverse(score), id), mapped to the emoji.
search(query) ==
    LET sorted == sort_by_key(Scored(query))
    IN  [k \in 1..Len(sorted) |-> sorted[k].id]

(***************************************************************************)
(* Calls of the library on the generated table. The table is immutable and *)
(* the functions are pure, so a behaviour makes one call.                  *)
(***************************************************************************)

\* A sequence without its last element.
Front(q) == SubSeq(q, 1, Len(q) - 1)

\* The strings get is called with: every key, every record's string, and near misses
\* (a key cut short, a key with a variation selector added, the empty string).
UnicodeQueries ==
    LET keys == DOMAIN unicodeMAP \cup { EMOJIS[p].emoji : p \in 1..Len(EMOJIS) }
    IN  keys \cup { Front(k) : k \in keys } \cup { k \o <<65039>> : k \in keys }

\* ASCII upper case of a one-character string.
Upper(c) ==
    CASE c = "a" -> "A" [] c = "b" -> "B" [] c = "c" -> "C"
      [] c = "x" -> "X" [] c = "y" -> "Y" [] c = "z" -> "Z" [] OTHER -> c

\* The strings get_by_shortcode is called with: every key, every record's name, and
\* near misses (a key cut short, in upper case, the empty string).
ShortcodeQueries ==
    LET keys == DOMAIN shortcodeMAP
    IN  keys \cup { EMOJIS[p].name : p \in 1..Len(EMOJIS) }
             \cup { Front(k) : k \in keys }
             \cup { [i \in 1..Len(k) |-> Upper(k[i])] : k \in keys }

\* The queries search is called with.
Queries ==
    { <<>>, <<"a">>, <<"b">>, <<"a", "b">>, <<"a", "b", "c">>, <<"a", "b", "d">>, <<"b", "a">>,
      <<"y", "a", "b">>, <<"a", "b", ":", "l">> }

Call(o, a, r, panics) ==
    /\ pc' = IF panics THEN "panicked" ELSE "done"
    /\ op' = o
    /\ arg' = a
    /\ res' = IF panics THEN <<>> ELSE r
    /\ UNCHANGED <<lines, gemoji, group, subgroup, parsed_data, EMOJIS, unicodeMAP, shortcodeMAP, remaining, written>>

SkinToneCall ==
    /\ pc = "run"
    /\ \E e \in Ids : Call("skin_tone", <<e>>, skin_tone(e), FALSE)

SkinTonesCall ==
    /\ pc = "run"
    /\ \E e \in Ids : Call("skin_tones", <<e>>, skin_tones(e), skin_tones_panics(e))

WithSkinToneCall ==
    /\ pc = "run"
    /\ \E e \in Ids, t \in SkinTones :
        Call("with_skin_tone", <<e, t>>, with_skin_tone(e, t), with_skin_tone_panics(e, t))

ShortcodeCall ==
    /\ pc = "run"
    /\ \E e \in Ids : Call("shortcode", <<e>>, shortcode(e), FALSE)

IterCall ==
    /\ pc = "run"
    /\ Call("iter", <<>>, iter, FALSE)

GroupEmojisCall ==
    /\ pc = "run"
    /\ \E g \in { GroupIter[i] : i \in 1..Len(GroupIter) } :
        Call("Group::emojis", <<g>>, emojis(g), FALSE)

\* Group::iter().flat_map(|g| g.emojis()).collect()
GroupIterFlatMapCall ==
    /\ pc = "run"
    /\ Call("Group::iter().flat_map(Group::emojis)", <<>>,
            Concat([i \in 1..Len(GroupIter) |-> emojis(GroupIter[i])]), FALSE)

GetCall ==
    /\ pc = "run"
    /\ \E s \in UnicodeQueries : Call("get", <<s>>, get(s), get_panics(s))

GetByShortcodeCall ==
    /\ pc = "run"
    /\ \E s \in ShortcodeQueries :
        Call("get_by_shortcode", <<s>>, get_by_shortcode(s), get_by_shortcode_panics(s))

SearchCall ==
    /\ pc = "run"
    /\ \E q \in Queries : Call("search", <<q>>, search(q), FALSE)

Init ==
    /\ \E l \in Inputs :
          /\ lines = FileFrom(l, 1)
          /\ gemoji = GemojiFrom(l, 1)
    /\ pc = "next_group"
    /\ group = None
    /\ subgroup = None
    /\ parsed_data = <<>>
    /\ EMOJIS = <<>>
    /\ unicodeMAP = <<>>
    /\ shortcodeMAP = <<>>
    /\ op = None
    /\ arg = None
    /\ res = None
    /\ remaining = <<>>
    /\ written = <<>>

Next ==
    \/ NextGroup
    \/ NextSubgroup
    \/ ParseLine
    \/ Generate
    \/ SkinToneCall
    \/ SkinTonesCall
    \/ WithSkinToneCall
    \/ ShortcodeCall
    \/ IterCall
    \/ GroupEmojisCall
    \/ GroupIterFlatMapCall
    \/ GetCall
    \/ GetByShortcodeCall
    \/ SearchCall

Spec == Init /\ [][Next]_vars

(***************************************************************************)
(* Properties                                                              *)
(***************************************************************************)

Called(o) == pc = "done" /\ op = o

IsModifier(c) == \E i \in 1..Len(skin_tones_iter) : code_point(skin_tones_iter[i]) = c

\* An emoji string without its variation selectors (U+FE0F): the fully-, minimally-
\* and unqualified forms of an emoji have the same unqualified string.
IsNotSelector(c) == c # 65039
Unqualified(str) == SelectSeq(str, IsNotSelector)

\* An emoji string without variation selectors and skin tone modifiers.
IsBaseChar(c) == c # 65039 /\ ~IsModifier(c)
BaseChars(str) == SelectSeq(str, IsBaseChar)

\* The table has no other record of the same base emoji: no skin-tone dimension.
NoSkinToneDimension(e) ==
    \A m \in Ids : BaseChars(EMOJIS[m + 1].emoji) = BaseChars(EMOJIS[e + 1].emoji) => m = e

\* C1: for a record with a skin tone, skin_tones() yields exactly 6 or exactly 26
\* records, and the k-th of them carries the k-th tone of the enumeration Default,
\* Light, ..., Dark, LightAndMediumLight, ..., DarkAndMediumDark.
C1_SkinTonesEnumeration ==
    /\ pc = "panicked" => op # "skin_tones"
    /\ (Called("skin_tones") /\ EMOJIS[arg[1] + 1].skin_tone # <<>>) =>
        /\ res # <<>>
        /\ Len(res[1]) \in {6, 26}
        /\ \A k \in 1..Len(res[1]) :
              EMOJIS[res[1][k] + 1].skin_tone # <<>> /\
              EMOJIS[res[1][k] + 1].skin_tone[1].tone = SkinTone[k]

C1_Witness ==
    /\ Called("skin_tones")
    /\ EMOJIS[arg[1] + 1].skin_tone # <<>>
    /\ EMOJIS[arg[1] + 1].skin_tone[1].tone = "MediumLight"
    /\ res # <<>>
    /\ Len(res[1]) = 26

\* C2: in a skin-tone family with default member d, with_skin_tone(t) called on any
\* member returns the member whose tone is t; with_skin_tone(Default) returns d, and d
\* is the member the family's records name as their default.
C2_WithSkinToneSelectsMember ==
    /\ pc = "panicked" => op # "with_skin_tone"
    /\ (Called("with_skin_tone") /\ EMOJIS[arg[1] + 1].skin_tone # <<>>) =>
        LET d       == EMOJIS[arg[1] + 1].skin_tone[1].id
            members == { m \in Ids : EMOJIS[m + 1].skin_tone # <<>> /\
                                     EMOJIS[m + 1].skin_tone[1].id = d }
        IN  /\ d \in members
            /\ EMOJIS[d + 1].skin_tone[1].tone = "Default"
            /\ arg[2] = "Default" => res = << d >>
            /\ \A m \in members : EMOJIS[m + 1].skin_tone[1].tone = arg[2] => res = << m >>

C2_Witness ==
    /\ Called("with_skin_tone")
    /\ EMOJIS[arg[1] + 1].skin_tone # <<>>
    /\ EMOJIS[arg[1] + 1].skin_tone[1].tone = "Light"
    /\ arg[2] = "DarkAndMedium"
    /\ res # <<>>
    /\ EMOJIS[res[1] + 1].skin_tone[1].tone = "DarkAndMedium"

\* C3: get called with any qualification form of an emoji of the table (the string
\* that differs from the record's string only in variation selectors) returns that
\* record, the fully-qualified one.
C3_GetReturnsFullyQualified ==
    Called("get") =>
        \A f \in Ids :
            (arg[1] \in DOMAIN unicodeMAP /\ Unqualified(EMOJIS[f + 1].emoji) = Unqualified(arg[1]))
                => res = << f >>

\* C4: the Group::emojis() of the groups of Group::iter(), concatenated in that order,
\* are the sequence iter() yields.
C4_GroupsPartitionIter ==
    Called("Group::iter().flat_map(Group::emojis)") => res = iter

C4_Witness ==
    /\ Called("Group::iter().flat_map(Group::emojis)")
    /\ \E k, l \in 1..Len(res) : EMOJIS[res[k] + 1].group # EMOJIS[res[l] + 1].group
    /\ Len(res) < Len(EMOJIS)

\* C5: iter() yields, in table order, exactly the records whose skin tone is absent or
\* Default, and at least one of them has the Default tone.
C5_IterOnlyDefaultSkinTones ==
    Called("iter") =>
        /\ \A k \in 1..Len(res) :
              \/ EMOJIS[res[k] + 1].skin_tone = <<>>
              \/ EMOJIS[res[k] + 1].skin_tone[1].tone = "Default"
        /\ \A k, l \in 1..Len(res) : k < l => res[k] < res[l]
        /\ \A e \in Ids :
              (\/ EMOJIS[e + 1].skin_tone = <<>>
               \/ EMOJIS[e + 1].skin_tone[1].tone = "Default")
                  => \E k \in 1..Len(res) : res[k] = e
        /\ \E k \in 1..Len(res) :
              EMOJIS[res[k] + 1].skin_tone # <<>> /\
              EMOJIS[res[k] + 1].skin_tone[1].tone = "Default"

C5_Witness ==
    /\ Called("iter")
    /\ Len(res) < Len(EMOJIS)
    /\ \E k \in 1..Len(res) : EMOJIS[res[k] + 1].skin_tone = <<>>

\* C6: get called with the string stored at a table position returns that position.
C6_GetRoundTrip ==
    Called("get") =>
        \A e \in Ids : EMOJIS[e + 1].emoji = arg[1] => res = << e >>

C6_Witness ==
    /\ Called("get")
    /\ \E e \in Ids : e > 0 /\ EMOJIS[e + 1].emoji = arg[1] /\ res = << e >>

\* C7: get_by_shortcode called with the first alias of a record returns that record.
C7_ShortcodeRoundTrip ==
    Called("get_by_shortcode") =>
        \A e \in Ids :
            (EMOJIS[e + 1].aliases # <<>> /\ EMOJIS[e + 1].aliases[1] # <<>> /\
             EMOJIS[e + 1].aliases[1][1] = arg[1]) => res = << e >>

C7_Witness ==
    /\ Called("get_by_shortcode")
    /\ \E e \in Ids :
          /\ e > 0
          /\ EMOJIS[e + 1].aliases # <<>>
          /\ Len(EMOJIS[e + 1].aliases[1]) > 1
          /\ EMOJIS[e + 1].aliases[1][1] = arg[1]
          /\ res = << e >>

\* C8: for a record with no skin-tone dimension, skin_tone(), skin_tones() and
\* with_skin_tone(t), for every t, are None.
C8_NoSkinToneIsNone ==
    /\ (pc = "panicked" /\ op \in {"skin_tone", "skin_tones", "with_skin_tone"})
          => ~NoSkinToneDimension(arg[1])
    /\ ((Called("skin_tone") \/ Called("skin_tones") \/ Called("with_skin_tone"))
        /\ res # <<>>) => ~NoSkinToneDimension(arg[1])

C8_Witness ==
    /\ Called("with_skin_tone")
    /\ NoSkinToneDimension(arg[1])
    /\ arg[1] > 0
    /\ \E e \in Ids : EMOJIS[e + 1].skin_tone # <<>> /\ EMOJIS[e + 1].group = EMOJIS[arg[1] + 1].group
    /\ arg[2] = "Default"
    /\ res = <<>>

\* C9: get and get_by_shortcode return None for a string that is not the string or a
\* registered variation of a record, respectively not an alias of a record, and they
\* never panic: every position stored in the two maps is a position of the table.
C9_ExactMatchOrNone ==
    /\ pc = "panicked" => op \notin {"get", "get_by_shortcode"}
    /\ pc = "run" =>
          /\ \A k \in DOMAIN unicodeMAP : unicodeMAP[k] \in Ids
          /\ \A k \in DOMAIN shortcodeMAP : shortcodeMAP[k] \in Ids
    /\ (Called("get") /\ arg[1] \notin DOMAIN unicodeMAP) => res = <<>>
    /\ (Called("get_by_shortcode") /\
        ~\E e \in Ids : EMOJIS[e + 1].aliases # <<>> /\
                        \E a \in 1..Len(EMOJIS[e + 1].aliases[1]) :
                            EMOJIS[e + 1].aliases[1][a] = arg[1])
          => res = <<>>

C9_Witness ==
    /\ Called("get_by_shortcode")
    /\ res = <<>>
    /\ arg[1] # <<>>
    /\ [i \in 1..Len(arg[1]) |-> Lower(arg[1][i])] \in DOMAIN shortcodeMAP

\* C10: the records search returns are in non-increasing order of score, records of
\* equal score in ascending order of table position, and every record whose score is
\* above the threshold is returned exactly once.
C10_SearchSorted ==
    Called("search") =>
        /\ \A k \in 1..Len(res) : emoji_score(res[k], arg[1]) # <<>>
        /\ \A k, l \in 1..Len(res) :
              k < l =>
                LET x == emoji_score(res[k], arg[1])[1]
                    y == emoji_score(res[l], arg[1])[1]
                IN  /\ x.num * y.den >= y.num * x.den
                    /\ x.num * y.den = y.num * x.den => res[k] < res[l]
        /\ \A e \in Ids :
              emoji_score(e, arg[1]) # <<>> =>
                  Cardinality({ k \in 1..Len(res) : res[k] = e }) = 1

C10_Witness ==
    /\ Called("search")
    /\ \E k, l, m \in 1..Len(res) :
          /\ k < l /\ l < m
          /\ res[k] > res[l]
          /\ ScoreCmp(emoji_score(res[k], arg[1])[1], emoji_score(res[l], arg[1])[1]) > 0
          /\ ScoreCmp(emoji_score(res[l], arg[1])[1], emoji_score(res[m], arg[1])[1]) = 0

\* The strings search compares a query with: the name and every alias of a record.
Things(e) ==
    { EMOJIS[e + 1].name } \cup
    (IF EMOJIS[e + 1].aliases = <<>> THEN {}
     ELSE { EMOJIS[e + 1].aliases[1][a] : a \in 1..Len(EMOJIS[e + 1].aliases[1]) })

\* C11: search(q) returns a record if and only if one of the similarities of q with its
\* name and aliases (hence their maximum) is above 3/4; a record whose best similarity
\* is 3/4 or less is not returned, the empty query returns nothing, and search does
\* not fail.
C11_SearchThreshold ==
    /\ pc = "panicked" => op # "search"
    /\ Called("search") =>
          /\ \A e \in Ids :
                (\E k \in 1..Len(res) : res[k] = e) <=>
                (\E t \in Things(e) :
                    4 * similarity(t, arg[1]).num > 3 * similarity(t, arg[1]).den)
          /\ arg[1] = <<>> => res = <<>>

\* A query for which a record's best similarity is exactly 3/4, and nothing is returned.
C11_Witness ==
    /\ Called("search")
    /\ res = <<>>
    /\ \E e \in Ids :
          /\ \E t \in Things(e) :
                4 * similarity(t, arg[1]).num = 3 * similarity(t, arg[1]).den
          /\ \A t \in Things(e) :
                4 * similarity(t, arg[1]).num <= 3 * similarity(t, arg[1]).den

\* C12: in search(q), every record whose name or one of whose aliases equals q comes
\* before every returned record none of whose name and aliases equals q.
C12_ExactMatchFirst ==
    Called("search") =>
        \A k, l \in 1..Len(res) :
            (arg[1] \in Things(res[l]) /\ arg[1] \notin Things(res[k])) => l < k

\* An exact match returned before a non-exact match of a smaller table position.
C12_Witness ==
    /\ Called("search")
    /\ \E k, l \in 1..Len(res) :
          /\ k < l
          /\ arg[1] \in Things(res[k])
          /\ arg[1] \notin Things(res[l])
          /\ res[l] < res[k]

(***************************************************************************)
(* Emoji::from_line and the order of UnicodeVersion as functions of their  *)
(* arguments: PureSpec applies each to every argument of a bounded set     *)
(***************************************************************************)

\* The most skin tone modifiers in a line given to from_line.
MaxModifiers == 3

\* The largest major and minor number of a UnicodeVersion compared.
MaxVersion == 3

\* The lists of at most MaxModifiers modifier tones.
ToneLists ==
    UNION { [1..n -> { skin_tones_iter[i] : i \in 1..Len(skin_tones_iter) }]
            : n \in 0..MaxModifiers }

Statuses == { "fully-qualified", "minimally-qualified", "unqualified", "component" }

\* A line of emoji-test.txt whose emoji is one person for each modifier of ms, joined by
\* ZWJ (one person without modifier for the empty list).
ToneLine(ms, status) ==
    EmojiLine(IF ms = <<>> THEN << Base1(1) >>
              ELSE Concat([i \in 1..Len(ms) |->
                      (IF i > 1 THEN << 8205 >> ELSE <<>>) \o << Base2(i), code_point(ms[i]) >>]),
              status, BaseName(1))

\* let emoji = Emoji::from_line(line)
FromLineCall ==
    /\ pc = "pure"
    /\ \E ms \in ToneLists, status \in Statuses \cup { "bogus" } :
          Call("from_line", << ToneLine(ms, status), ms >>, from_line(ToneLine(ms, status)), FALSE)

\* #[derive(PartialOrd, Ord)] with the two fields compared in declaration order, minor
\* before major.
UnicodeVersionCmpMinorFirst(a, b) ==
    IF a.minor # b.minor THEN (IF a.minor < b.minor THEN -1 ELSE 1)
    ELSE IF a.major # b.major THEN (IF a.major < b.major THEN -1 ELSE 1)
    ELSE 0

\* #[derive(PartialOrd, Ord)] on struct UnicodeVersion { major, minor }: the fields are
\* compared in declaration order; -1 (Less), 0 (Equal), 1 (Greater).
UnicodeVersionCmp(a, b) ==
    IF a.major # b.major THEN (IF a.major < b.major THEN -1 ELSE 1)
    ELSE IF a.minor # b.minor THEN (IF a.minor < b.minor THEN -1 ELSE 1)
    ELSE 0

\* UnicodeVersion::new(major, minor)
UnicodeVersions == [major : 0..MaxVersion, minor : 0..MaxVersion]

\* UnicodeVersion::new(..).cmp(&UnicodeVersion::new(..))
UnicodeVersionCmpCall ==
    /\ pc = "pure"
    /\ \E a \in UnicodeVersions, b \in UnicodeVersions :
          Call("UnicodeVersion::cmp", << a, b >>, UnicodeVersionCmp(a, b), FALSE)

PureInit ==
    /\ lines = <<>>
    /\ gemoji = <<>>
    /\ pc = "pure"
    /\ group = None
    /\ subgroup = None
    /\ parsed_data = <<>>
    /\ EMOJIS = <<>>
    /\ unicodeMAP = <<>>
    /\ shortcodeMAP = <<>>
    /\ op = None
    /\ arg = None
    /\ res = None
    /\ remaining = <<>>
    /\ written = <<>>

PureNext ==
    \/ FromLineCall
    \/ UnicodeVersionCmpCall

PureSpec == PureInit /\ [][PureNext]_vars

\* C14: from_line on a line with the modifier list ms gives no tone for ms empty, the
\* tone a for [a] and for [a, a], the pair tone aAndb for [a, b] with a # b (a member of
\* the enumeration; the 20 ordered pairs give 20 different tones), and fails for three
\* or more modifiers.
C14_FromLineSkinTone ==
    (Called("from_line") /\ arg[1].status \in Statuses) =>
        LET ms == arg[2]
        IN  /\ Len(ms) = 0 => (~res.err /\ res.skin_tone = None)
            /\ Len(ms) = 1 => (~res.err /\ res.skin_tone = ms[1])
            /\ (Len(ms) = 2 /\ ms[1] = ms[2]) => (~res.err /\ res.skin_tone = ms[1])
            /\ (Len(ms) = 2 /\ ms[1] # ms[2]) =>
                  /\ ~res.err
                  /\ res.skin_tone = ms[1] \o "And" \o ms[2]
                  /\ res.skin_tone \in SkinTones
                  /\ res.skin_tone # from_line(ToneLine(<< ms[2], ms[1] >>, arg[1].status)).skin_tone
            /\ Len(ms) >= 3 => res.err
            /\ Cardinality({ from_line(ToneLine(l, arg[1].status)).skin_tone :
                                l \in { m \in ToneLists : Len(m) = 2 /\ m[1] # m[2] } }) = 20

C14_Witness ==
    /\ Called("from_line")
    /\ arg[2] = << "Dark", "Light" >>
    /\ ~res.err
    /\ res.skin_tone = "DarkAndLight"

\* C16: UnicodeVersion values are ordered by major, then by minor: a < b if and only if
\* a.major < b.major, or the majors are equal and a.minor < b.minor; a = b only when both
\* fields are equal; the order is total (antisymmetric and transitive).
C16_UnicodeVersionOrder ==
    Called("UnicodeVersion::cmp") =>
        LET a == arg[1]
            b == arg[2]
        IN  /\ res \in { -1, 0, 1 }
            /\ res = -1 <=> (a.major < b.major \/ (a.major = b.major /\ a.minor < b.minor))
            /\ res = 0 <=> (a.major = b.major /\ a.minor = b.minor)
            /\ UnicodeVersionCmp(b, a) = 0 - res
            /\ \A c \in UnicodeVersions :
                  (res <= 0 /\ UnicodeVersionCmp(b, c) <= 0) => UnicodeVersionCmp(a, c) <= 0

C16_Witness ==
    /\ Called("UnicodeVersion::cmp")
    /\ arg[1].major < arg[2].major
    /\ arg[1].minor > arg[2].minor
    /\ res = -1

(***************************************************************************)
(* The generator on input it must reject: BuildSpec runs parse_emoji_data  *)
(* and the generation on files with a family whose default line is missing *)
(* and on gemoji data with two entries for one emoji                       *)
(***************************************************************************)

BuildKinds == {"Plain", "Fam6", "Orphan6"}

BuildInputs == { l \in LayoutsOf(BuildKinds) : GroupNo(l, Len(l)) <= Len(GroupHeaders) }

\* gemoji data with a second entry for the emoji of its first entry, under another alias.
GemojiDup(g) ==
    IF g = <<>> THEN g
    ELSE g \o << [emoji |-> g[1].emoji, aliases |-> << <<"w">> \o g[1].aliases[1] >>] >>

BuildInit ==
    /\ \E l \in BuildInputs, dup \in BOOLEAN :
          /\ lines = FileFrom(l, 1)
          /\ gemoji = IF dup THEN GemojiDup(GemojiFrom(l, 1)) ELSE GemojiFrom(l, 1)
    /\ pc = "next_group"
    /\ group = None
    /\ subgroup = None
    /\ parsed_data = <<>>
    /\ EMOJIS = <<>>
    /\ unicodeMAP = <<>>
    /\ shortcodeMAP = <<>>
    /\ op = None
    /\ arg = None
    /\ res = None
    /\ remaining = <<>>
    /\ written = <<>>

BuildNext ==
    \/ NextGroup
    \/ NextSubgroup
    \/ ParseLine
    \/ Generate

BuildSpec == BuildInit /\ [][BuildNext]_vars

\* Two entries of the gemoji data have the same emoji string.
GemojiKeyTwice == \E i, j \in 1..Len(gemoji) : i < j /\ gemoji[i].emoji = gemoji[j].emoji

\* C13: the build fails whenever two source entries supply the same key: a key given
\* twice to one of the two index maps, or two gemoji entries with the same emoji string
\* (loading them never keeps one and drops the other).
C13_DuplicateKeyFailsBuild ==
    [][(/\ pc = "parsed"
        /\ \/ GemojiKeyTwice
           \/ DuplicateKey(UnicodeEntries(parsed_data))
           \/ DuplicateKey(ShortcodeEntries(GenEmojis(parsed_data, collect(gemoji)))))
       => pc' = "failed"]_vars

\* The records of the current subgroup that the claim lets a toned record attach to: no
\* tone or the Default tone, and a name contained in the new record's name.
DefaultsFor(v, name) ==
    { i \in 1..Len(v) : IsDefaultOrNone(v[i]) /\ Contains(name, v[i].name) }

\* C15: a fully-qualified line with a non-default tone attaches its record to the
\* nearest preceding record of the subgroup that has no tone or the Default tone and
\* whose name is contained in the new name (that record becomes Default and counts one
\* more skin tone); when there is no such record, construction fails.
C15_AttachToNamedDefault ==
    [][(/\ pc = "lines"
        /\ lines # <<>>
        /\ Head(lines).type = "emoji"
        /\ Head(lines).status = "fully-qualified"
        /\ MatchSkinTone(Modifiers(Head(lines).code_points)) \notin { None, "Err" })
       => LET v    == EntryGet(parsed_data, group, subgroup)
              hits == DefaultsFor(v, Head(lines).name)
          IN  IF hits = {} THEN pc' = "failed"
              ELSE LET d  == CHOOSE i \in hits : \A j \in hits : j <= i
                       v2 == EntryGet(parsed_data', group, subgroup)
                   IN  /\ pc' = "lines"
                       /\ Len(v2) = Len(v) + 1
                       /\ v2[d].skin_tone = "Default"
                       /\ v2[d].skin_tones = v[d].skin_tones + 1]_vars

(***************************************************************************)
(* parse_emoji_data on files whose skin tones arrive in any order:         *)
(* ParseSpec reads one subgroup holding a family in a chosen order of its  *)
(* tones, every fully-qualified line followed by its minimally-qualified   *)
(* line, after and before other emojis                                     *)
(***************************************************************************)

\* The orders of the five modifiers of a one-person family: all permutations of 1..5.
ToneOrders ==
    { o \in [1..5 -> 1..5] : \A i, j \in 1..5 : i # j => o[i] # o[j] }

\* Orders of the 25 modifier pairs of a two-person family (pair p is the modifiers
\* (p - 1) \div 5 + 1 and (p - 1) % 5 + 1): by rows as in emoji-test.txt, by columns,
\* backwards, and the five equal pairs first.
PairOrders ==
    { [p \in 1..25 |-> p],
      [p \in 1..25 |-> ((p - 1) % 5) * 5 + ((p - 1) \div 5) + 1],
      [p \in 1..25 |-> 26 - p],
      [p \in 1..25 |-> IF p <= 5 THEN 6 * (p - 1) + 1
                       ELSE (p - 6) + ((p - 6) \div 5) + 2] }

\* One person with a ZWJ sequence (e.g. "man detective"): the default fully-qualified
\* and unqualified, then the five modifiers in the order o, each fully-qualified and
\* minimally-qualified.
Fam6BlockIn(k, o) ==
    << EmojiLine(<<Base1(k), 65039, 8205, 9794, 65039>>, "fully-qualified", BaseName(k)),
       EmojiLine(<<Base1(k), 8205, 9794>>, "unqualified", BaseName(k)) >> \o
    [n \in 1..10 |->
        LET st == skin_tones_iter[o[(n + 1) \div 2]]
            fq == (n % 2 = 1)
        IN  EmojiLine(<<Base1(k), code_point(st), 8205, 9794>> \o (IF fq THEN <<65039>> ELSE <<>>),
                      IF fq THEN "fully-qualified" ELSE "minimally-qualified",
                      BaseName(k) \o <<":", ToneLetter(st)>>)]

\* Two persons, the 25 modifier pairs in the order o.
Fam26BlockIn(k, o) ==
    << EmojiLine(Couple(k, <<>>, <<>>, TRUE), "fully-qualified", BaseName(k)),
       EmojiLine(Couple(k, <<>>, <<>>, FALSE), "minimally-qualified", BaseName(k)) >> \o
    [n \in 1..50 |->
        LET p  == o[(n + 1) \div 2]
            a  == skin_tones_iter[((p - 1) \div 5) + 1]
            b  == skin_tones_iter[((p - 1) % 5) + 1]
            fq == (n % 2 = 1)
        IN  EmojiLine(Couple(k, <<code_point(a)>>, <<code_point(b)>>, fq),
                      IF fq THEN "fully-qualified" ELSE "minimally-qualified",
                      BaseName(k) \o <<":", ToneLetter(a), ToneLetter(b)>>)]

\* A file: one group with one subgroup holding an optional first block (an emoji
\* without skin tones or a one-person family), the family in its order, and an
\* optional last emoji without skin tones.
ParseInputs ==
    [lead : {"None", "Plain", "Fam6"}, order : ToneOrders \cup PairOrders, trail : BOOLEAN]

ParseFile(f) ==
    << CommentLine, BlankLine, GroupLine(GroupHeaders[1]), BlankLine, SubgroupLine("subgroup") >>
    \o (IF f.lead = "None" THEN <<>> ELSE BlockLines(1, f.lead))
    \o (IF Len(f.order) = 5 THEN Fam6BlockIn(2, f.order) ELSE Fam26BlockIn(2, f.order))
    \o (IF f.trail THEN PlainBlock(3) ELSE <<>>)
    \o << BlankLine, CommentLine >>

ParseInit ==
    /\ \E f \in ParseInputs : lines = ParseFile(f)
    /\ gemoji = <<>>
    /\ pc = "next_group"
    /\ group = None
    /\ subgroup = None
    /\ parsed_data = <<>>
    /\ EMOJIS = <<>>
    /\ unicodeMAP = <<>>
    /\ shortcodeMAP = <<>>
    /\ op = None
    /\ arg = None
    /\ res = None
    /\ remaining = <<>>
    /\ written = <<>>

ParseNext ==
    \/ NextGroup
    \/ NextSubgroup
    \/ ParseLine

ParseSpec == ParseInit /\ [][ParseNext]_vars

\* The Vecs of parsed_data.
Vecs ==
    UNION { { parsed_data[gi].value[si].value : si \in 1..Len(parsed_data[gi].value) }
            : gi \in 1..Len(parsed_data) }

\* The list v is made of emojis without skin tone and of runs, each a Default record
\* followed by the other members of its family (the records of the same base emoji) in
\* strictly ascending order of tone, skin_tones of the Default record being the length
\* of the run; no family has two such records.
FamilyRuns(v) ==
    /\ v # <<>> => IsDefaultOrNone(v[1])
    /\ \A d \in 1..Len(v) :
          /\ v[d].skin_tone = None =>
                /\ v[d].skin_tones = 1
                /\ d < Len(v) => IsDefaultOrNone(v[d + 1])
          /\ v[d].skin_tone = "Default" =>
                LET n == v[d].skin_tones
                IN  /\ n >= 2
                    /\ d + n - 1 <= Len(v)
                    /\ \A k \in 1..(n - 1) :
                          /\ d + k <= Len(v)
                          /\ ~IsDefaultOrNone(v[d + k])
                          /\ BaseChars(v[d + k].emoji) = BaseChars(v[d].emoji)
                          /\ k > 1 => ToneOrd(v[d + k - 1].skin_tone) < ToneOrd(v[d + k].skin_tone)
                    /\ d + n <= Len(v) => IsDefaultOrNone(v[d + n])
          /\ \A e \in 1..Len(v) :
                (/\ IsDefaultOrNone(v[d]) /\ IsDefaultOrNone(v[e])
                 /\ BaseChars(v[e].emoji) = BaseChars(v[d].emoji)) => e = d

\* C17: after every line parse_emoji_data reads, in whatever order the tones of a family
\* arrive, each family is one contiguous run of its subgroup's list: the Default member,
\* then the other members in strictly ascending order of the tone enumeration, and
\* skin_tones of the Default member is the length of the run.
C17_FamiliesContiguous == \A v \in Vecs : FamilyRuns(v)

\* The line just read made a record that was inserted in the middle of its family's
\* run: the next line is its minimally-qualified form, a later member follows it.
C17_Witness ==
    /\ pc = "lines"
    /\ lines # <<>>
    /\ Head(lines).status = "minimally-qualified"
    /\ HasVec(parsed_data, group, subgroup)
    /\ LET v == GetVec(parsed_data, group, subgroup)
       IN  \E p \in 1..(Len(v) - 1) :
              /\ ~IsDefaultOrNone(v[p])
              /\ v[p].emoji # Head(lines).code_points
              /\ Unqualified(v[p].emoji) = Unqualified(Head(lines).code_points)
              /\ ~IsDefaultOrNone(v[p + 1])
              /\ ~IsDefaultOrNone(v[p - 1])

\* C18: every minimally-qualified or unqualified line is recorded as a variation of the
\* record of the fully-qualified line before it, the record of the same emoji: every
\* variation of a record differs from the record's string in variation selectors only.
C18_VariationOfItsRecord ==
    \A v \in Vecs :
        \A p \in 1..Len(v) :
            \A x \in 1..Len(v[p].variations) :
                Unqualified(v[p].variations[x]) = Unqualified(v[p].emoji)

(***************************************************************************)
(* examples/replace.rs: a text is a sequence of code points (':' is 58,    *)
(* 'a' 97, 'b' 98); ReplaceSpec runs replace on every text of a bounded    *)
(* length over the table of the one emoji "ab" with the shortcodes "a"     *)
(* and "ab"                                                                *)
(***************************************************************************)

\* The longest text given to replace.
MaxText == 6

\* The texts given to replace.
Texts == UNION { [1..n -> {58, 97, 98}] : n \in 0..MaxText }

\* The &str of a text, as the library's functions take it.
Str(t) ==
    [i \in 1..Len(t) |->
        CASE t[i] = 58 -> ":" [] t[i] = 97 -> "a" [] t[i] = 98 -> "b" [] OTHER -> "?"]

\* str::find(':'): None, or Some of the index (counted from 0) of the first colon.
find(t) ==
    LET hits == { i \in 1..Len(t) : t[i] = 58 }
    IN  IF hits = {} THEN <<>> ELSE << (CHOOSE i \in hits : \A j \in hits : i <= j) - 1 >>

\* &t[a..b]
Slice(t, a, b) == SubSeq(t, a + 1, b)

\* emojis::lookup: the record of a shortcode, or None.
lookup(t) == get_by_shortcode(Str(t))

\* The condition of the while let: Some((i, j, m, n)) when the text has two colons.
Indices(t) ==
    IF find(t) = <<>> THEN <<>>
    ELSE LET i == find(t)[1]
             m == i + 1
         IN  IF find(Slice(t, m, Len(t))) = <<>> THEN <<>>
             ELSE LET x == find(Slice(t, m, Len(t)))[1]
                  IN  << [i |-> i, j |-> m + x + 1, m |-> m, n |-> m + x] >>

\* The loop body with the None arm writing s[..j] and going on from s[j..]: the
\* closing colon of an unknown name is not looked at again.
replace_iter_skip_colon(t, out) ==
    LET ix == Indices(t)[1]
    IN  IF lookup(Slice(t, ix.m, ix.n)) # <<>>
        THEN [s |-> Slice(t, ix.j, Len(t)),
              o |-> out \o Slice(t, 0, ix.i) \o as_str(lookup(Slice(t, ix.m, ix.n))[1])]
        ELSE [s |-> Slice(t, ix.j, Len(t)), o |-> out \o Slice(t, 0, ix.j)]

\* The loop body with the None arm going on from s[i..], the opening colon.
replace_iter_from_first_colon(t, out) ==
    LET ix == Indices(t)[1]
    IN  IF lookup(Slice(t, ix.m, ix.n)) # <<>>
        THEN [s |-> Slice(t, ix.j, Len(t)),
              o |-> out \o Slice(t, 0, ix.i) \o as_str(lookup(Slice(t, ix.m, ix.n))[1])]
        ELSE [s |-> Slice(t, ix.i, Len(t)), o |-> out \o Slice(t, 0, ix.i)]

\* The body of the while let of replace on the text t with out written so far: the new
\* s and what o then holds.
replace_iter(t, out) ==
    LET ix == Indices(t)[1]
    IN  IF lookup(Slice(t, ix.m, ix.n)) # <<>>
        THEN [s |-> Slice(t, ix.j, Len(t)),
              o |-> out \o Slice(t, 0, ix.i) \o as_str(lookup(Slice(t, ix.m, ix.n))[1])]
        ELSE [s |-> Slice(t, ix.n, Len(t)), o |-> out \o Slice(t, 0, ix.n)]

\* One iteration of the while let.
ReplaceLoop ==
    /\ pc = "replace"
    /\ Indices(remaining) # <<>>
    /\ remaining' = replace_iter(remaining, written).s
    /\ written' = replace_iter(remaining, written).o
    /\ UNCHANGED <<lines, gemoji, pc, group, subgroup, parsed_data, EMOJIS, unicodeMAP,
                   shortcodeMAP, op, arg, res>>

\* The loop left: o.write_all(s.as_bytes()).
ReplaceEnd ==
    /\ pc = "replace"
    /\ Indices(remaining) = <<>>
    /\ written' = written \o remaining
    /\ pc' = "done"
    /\ UNCHANGED <<lines, gemoji, group, subgroup, parsed_data, EMOJIS, unicodeMAP,
                   shortcodeMAP, op, arg, res, remaining>>

\* parsed_data of the file of the one emoji "ab" (fully-qualified and unqualified).
ReplaceParsedData ==
    << [key |-> "SmileysAndEmotion",
        value |-> << [key |-> "subgroup",
                      value |-> << [emoji |-> <<Base1(1), 65039>>, name |-> BaseName(1),
                                    status |-> "fully-qualified", skin_tone |-> None,
                                    skin_tones |-> 1, variations |-> << <<Base1(1)>> >>] >>] >>] >>

\* The gemoji entry of that emoji: the shortcodes "a" and "ab".
ReplaceGemoji ==
    << [emoji |-> <<Base1(1), 65039>>, aliases |-> << <<"a">>, <<"a", "b">> >>] >>

\* The table of that file and its gemoji entry.
ReplaceTable == GenEmojis(ReplaceParsedData, collect(ReplaceGemoji))

\* main: the text read from stdin is given to replace.
ReplaceMain ==
    /\ pc = "main"
    /\ \E t \in Texts :
          /\ arg' = << t >>
          /\ remaining' = t
    /\ op' = "replace"
    /\ pc' = "replace"
    /\ UNCHANGED <<lines, gemoji, group, subgroup, parsed_data, EMOJIS, unicodeMAP,
                   shortcodeMAP, res, written>>

ReplaceInit ==
    /\ arg = <<>>
    /\ remaining = <<>>
    /\ written = <<>>
    /\ op = None
    /\ pc = "main"
    /\ EMOJIS = ReplaceTable
    /\ unicodeMAP = MapOf(UnicodeEntries(ReplaceParsedData))
    /\ shortcodeMAP = MapOf(ShortcodeEntries(ReplaceTable))
    /\ lines = <<>>
    /\ gemoji = <<>>
    /\ group = None
    /\ subgroup = None
    /\ parsed_data = <<>>
    /\ res = None

ReplaceNext ==
    \/ ReplaceMain
    \/ ReplaceLoop
    \/ ReplaceEnd

ReplaceSpec == ReplaceInit /\ [][ReplaceNext]_vars

\* replace is a sequential program: its loop goes on while it can.
ReplaceFairSpec == ReplaceSpec /\ WF_vars(ReplaceNext)

\* The positions of the colons of a text, ascending.
Colons(t) ==
    LET colon(i) == t[i] = 58
    IN  SelectSeq([i \in 1..Len(t) |-> i], colon)

\* The text between the positions a and b is a known shortcode.
Known(t, a, b) == Str(SubSeq(t, a + 1, b - 1)) \in DOMAIN shortcodeMAP

\* The left-to-right scan of the text t over its colons cs: k is the colon taken as the
\* opening one, the text from position from on is not written yet. A known name between
\* the colons k and k + 1 is replaced by its emoji and the scan goes on after colon
\* k + 1; else colon k + 1 is the next opening colon and nothing is dropped.
RECURSIVE Scan(_, _, _, _)
Scan(t, cs, k, from) ==
    IF k + 1 > Len(cs) THEN SubSeq(t, from, Len(t))
    ELSE IF Known(t, cs[k], cs[k + 1])
         THEN SubSeq(t, from, cs[k] - 1)
              \o EMOJIS[shortcodeMAP[Str(SubSeq(t, cs[k] + 1, cs[k + 1] - 1))] + 1].emoji
              \o Scan(t, cs, k + 2, cs[k + 1] + 1)
         ELSE Scan(t, cs, k + 1, from)

\* C19: replace writes the text with every span :name: that the left-to-right scan
\* finds to be a known shortcode replaced by its emoji and everything else kept in
\* order, the closing colon of an unknown name being the opening colon of the next
\* candidate; a text with no known name between two consecutive colons is written
\* unchanged.
C19_ReplaceOutput ==
    (pc = "done" /\ op = "replace") =>
        LET t  == arg[1]
            cs == Colons(t)
        IN  /\ written = Scan(t, cs, 1, 1)
            /\ (\A k \in 1..(Len(cs) - 1) : ~Known(t, cs[k], cs[k + 1])) => written = t

\* ":b:ab:" is written as ":b" and the emoji.
C19_Witness ==
    /\ pc = "done"
    /\ op = "replace"
    /\ arg[1] = << 58, 98, 58, 97, 98, 58 >>
    /\ written = << 58, 98 >> \o EMOJIS[1].emoji

\* C20: replace terminates: every iteration of the loop makes the remaining text
\* strictly shorter, the loop is left exactly when the remaining text has fewer than two
\* colons, and the end is reached.
C20_ReplaceTerminates ==
    /\ [][(pc = "replace" /\ pc' = "replace") => Len(remaining') < Len(remaining)]_vars
    /\ [][(pc = "replace" /\ Len(Colons(remaining)) < 2) => pc' = "done"]_vars
    /\ [][(pc = "replace" /\ pc' = "done") => Len(Colons(remaining)) < 2]_vars
    /\ <>(pc = "done")

\* A text of three colons or more scanned to its end through both arms of the loop.
C20_Witness ==
    /\ pc = "done"
    /\ op = "replace"
    /\ Len(Colons(arg[1])) >= 3
    /\ written # arg[1]
    /\ written # <<>>
    /\ written[1] = 58

(***************************************************************************)
(* The skin_tone triples of the table, read by skin_tones and              *)
(* with_skin_tone                                                          *)
(***************************************************************************)

\* The generator's run followed by one call of a skin-tone accessor of src/lib.rs.
SkinToneNext ==
    \/ NextGroup
    \/ NextSubgroup
    \/ ParseLine
    \/ Generate
    \/ SkinToneCall
    \/ SkinTonesCall
    \/ WithSkinToneCall

SkinToneSpec == Init /\ [][SkinToneNext]_vars

\* Record k has the triple (i, n, _).
SameFamily(k, i, n) ==
    LET st == At(k).skin_tone
    IN  st # <<>> /\ st[1].id = i /\ st[1].n = n

\* C21: skin_tones() and with_skin_tone() never panic on a record of the table: for
\* every record with a triple (base, n, tone) the range [base, base + n) lies within the
\* table and every record of the range has a triple with the same base and the same n,
\* so neither the slice of skin_tones nor the unwrap of with_skin_tone's scan fails.
\* The range of a record is the range of its base record, so "every record of the
\* range" is stated once for each base: the base record of e has e's triple, and
\* every record of a base's range has the base's triple.
C21_SkinToneRangeInTable ==
    /\ \A e \in 0..(Len(EMOJIS) - 1) :
          LET st == At(e).skin_tone
          IN  st # <<>> =>
                  LET i == st[1].id
                      n == st[1].n
                  IN  /\ 0 <= i /\ i + n <= Len(EMOJIS)
                      /\ i <= e /\ e < i + n
                      /\ SameFamily(i, i, n)
                      /\ i = e => \A k \in i..(i + n - 1) : SameFamily(k, i, n)
    /\ ~(pc = "panicked" /\ op \in {"skin_tones", "with_skin_tone"})

\* with_skin_tone called on a toned member of a family of 6 that is followed in the
\* table by a record without a triple, with a tone the family does not have: the scan
\* unwraps the skin tone of every record of the range and returns None.
C21_Witness ==
    /\ Called("with_skin_tone")
    /\ At(arg[1]).skin_tone # <<>>
    /\ At(arg[1]).skin_tone[1].tone = "Dark"
    /\ At(arg[1]).skin_tone[1].n = 6
    /\ At(arg[1]).skin_tone[1].id + 6 \in Ids
    /\ At(At(arg[1]).skin_tone[1].id + 6).skin_tone = <<>>
    /\ arg[2] = "MediumAndDark"
    /\ res = <<>>

====
